---- MODULE Spec2Model ----
(***************************************************************************)
(* Universal LPC Spritesheet Character Generator: the CharacterGenerator   *)
(* of src/sources/api.js (path resolution, layer planning, image loading,  *)
(* compositing, options catalog) and the POST /api/generate handlers of    *)
(* src/server.js and src/unnamed/part_000.                                 *)
(*                                                                         *)
(* Paths are sequences of segments relative to the spritesheets root.      *)
(* A decoded image is identified by the path it was loaded from.           *)
(***************************************************************************)
EXTENDS Integers, Sequences, FiniteSets, TLC

VARIABLES
    assets,        \* the regular files of the asset tree (set of paths)
    dirs,          \* the directories of the asset tree below the root (set of paths)
    unreadable,    \* directories whose readdir fails
    rootReadable,  \* whether readdir of the asset root succeeds
    item,          \* getImagePath: the layer request
    resolved,      \* getImagePath: the returned path (<<>> before the call)
    options,       \* getAvailableOptions: the returned catalog or the thrown error
    wrapper,       \* which POST /api/generate handler serves the generator
    itemsToDraw,   \* generator.itemsToDraw
    itemsMeta,     \* generator.itemsMeta
    images,        \* generator.images: layer type -> decoded image
    sheetCredits,  \* generator.sheetCredits
    canvas,        \* generator.canvas: width, height and painted cells
    pc,            \* per request: position of the handler / generateCharacter
    cfg,           \* per request: the request body (config)
    pending,       \* image loads in flight (promises of loadImages not settled)
    outcome,       \* per request: what generateCharacter returned or threw
    response,      \* per request: the HTTP response sent
    drawLog,       \* per request: the drawImage calls its drawSpritesheet made
    fsAccess,      \* per request: image files its loads have opened
    started,       \* number of requests received so far
    history        \* the (config, result) pairs of the calls that returned

vars == <<assets, dirs, unreadable, rootReadable, item, resolved, options, wrapper,
          itemsToDraw, itemsMeta, images, sheetCredits, canvas, pc, cfg, pending,
          outcome, response, drawLog, fsAccess, started, history>>

resolveVars == <<item, resolved>>
catalogVars == <<dirs, unreadable, rootReadable, options>>
generatorVars == <<itemsToDraw, itemsMeta, images, sheetCredits, canvas>>
requestVars == <<wrapper, pc, cfg, pending, outcome, response, drawLog, fsAccess,
                 started, history>>

(***************************************************************************)
(* Bounds of the model.                                                    *)
(***************************************************************************)
MaxCalls == 2          \* requests received in one behaviour
MaxEquipment == 2      \* equipment entries in one config
MaxUnreadable == 1     \* unreadable directories in one asset tree

NoValue == "undefined"     \* JS undefined / null / absent property

Range(s) == {s[i] : i \in 1..Len(s)}
Min(S) == CHOOSE m \in S : \A n \in S : m <= n
Max(S) == CHOOSE m \in S : \A n \in S : m >= n

(***************************************************************************)
(* CharacterGenerator constants (constructor).                             *)
(***************************************************************************)
universalFrameSize == 64
\* a sheet of 8 frame columns
sheetWidthEightColumns == 8 * universalFrameSize
universalSheetWidth == 832
universalSheetHeight == 3456

bodyTypes == <<"male", "female", "teen", "child", "muscular", "pregnant">>

animations ==
    [spellcast   |-> [frames |-> 7,  row |-> 0],
     thrust      |-> [frames |-> 8,  row |-> 4],
     walk        |-> [frames |-> 9,  row |-> 8],
     slash       |-> [frames |-> 6,  row |-> 12],
     shoot       |-> [frames |-> 13, row |-> 16],
     hurt        |-> [frames |-> 6,  row |-> 20],
     climb       |-> [frames |-> 6,  row |-> 21],
     idle        |-> [frames |-> 2,  row |-> 22],
     jump        |-> [frames |-> 5,  row |-> 26],
     sit         |-> [frames |-> 3,  row |-> 30],
     emote       |-> [frames |-> 3,  row |-> 34],
     run         |-> [frames |-> 8,  row |-> 38],
     combat_idle |-> [frames |-> 2,  row |-> 42],
     backslash   |-> [frames |-> 13, row |-> 46],
     halfslash   |-> [frames |-> 7,  row |-> 50]]

bodyTypeMap ==
    [male |-> "adult", female |-> "adult", teen |-> "teen", child |-> "child",
     muscular |-> "adult", pregnant |-> "adult"]

zPositions ==
    [body |-> 10, hair |-> 20, eyes |-> 30, mouth |-> 40, beard |-> 50,
     armor |-> 60, weapon |-> 70, shield |-> 80, helmet |-> 90, boots |-> 100]

\* zPositions is an object literal: a key it does not own is looked up on
\* Object.prototype, where these names are functions (an object for __proto__)
ObjectPrototypeMembers ==
    {"constructor", "__proto__", "hasOwnProperty", "isPrototypeOf",
     "propertyIsEnumerable", "toLocaleString", "toString", "valueOf",
     "__defineGetter__", "__defineSetter__", "__lookupGetter__", "__lookupSetter__"}
\* stands for such an inherited member held as a zPos: it is truthy and not a
\* number, and its difference with any value is NaN
InheritedMember == -1

\* zPositions[type] || 0
getZPosition(type) ==
    IF type \in DOMAIN zPositions
    THEN (IF zPositions[type] # 0 THEN zPositions[type] ELSE 0)
    ELSE IF type \in ObjectPrototypeMembers THEN InheritedMember
    ELSE 0

(***************************************************************************)
(* getImagePath.  `fs` is the default export of 'fs/promises', which has   *)
(* no existsSync member: every probe fs.existsSync(path) throws a          *)
(* TypeError, the catch around it logs a warning, and the loop goes on.    *)
(***************************************************************************)
FsPromisesMembers == {"access", "readdir", "writeFile", "readFile", "stat"}

\* fs.existsSync(path): [threw, value]
existsSync(path, files) ==
    IF "existsSync" \in FsPromisesMembers
    THEN [threw |-> FALSE, value |-> path \in files]
    ELSE [threw |-> TRUE, value |-> FALSE]

\* this.bodyTypeMap[item.bodyType] || 'adult'
bodyTypeDirOf(bodyType) ==
    IF bodyType \in DOMAIN bodyTypeMap THEN bodyTypeMap[bodyType] ELSE "adult"

\* the candidate list of a non-body item, in the order of the source
possiblePaths(it) ==
    LET bodyTypeDir == bodyTypeDirOf(it.bodyType)
    IN IF it.subvariant # NoValue
       THEN << <<it.type, it.variant, it.subvariant, bodyTypeDir, "idle.png">>,
               <<it.type, it.variant, it.subvariant, "universal", "idle.png">>,
               <<it.type, it.variant, it.subvariant, "background", "idle.png">>,
               <<it.type, it.variant, it.subvariant, "foreground", "idle.png">>,
               <<it.type, it.variant, it.subvariant, "idle.png">>,
               <<it.type, it.variant, bodyTypeDir, "idle.png">> >>
       ELSE << <<it.type, it.variant, bodyTypeDir, "idle.png">>,
               <<it.type, it.variant, "universal", "idle.png">>,
               <<it.type, it.variant, "background", "idle.png">>,
               <<it.type, it.variant, "foreground", "idle.png">>,
               <<it.type, it.variant, "idle.png">> >>

\* for (const path of possiblePaths) { try { if (fs.existsSync(path)) return path } catch {} }
\* return possiblePaths[0]
firstExisting(paths, files) ==
    LET hits == {i \in 1..Len(paths) :
                    LET r == existsSync(paths[i], files) IN ~r.threw /\ r.value}
    IN IF hits = {} THEN paths[1] ELSE paths[Min(hits)]

getImagePath(it, files) ==
    IF it.type = "body"
    THEN <<"body", "bodies", it.bodyType, "idle.png">>
    ELSE firstExisting(possiblePaths(it), files)

(***************************************************************************)
(* The asset tree as the catalog sees it: readdir with file types, access. *)
(***************************************************************************)
\* the order in which a directory listing returns its entries
NameOrder == <<"LICENSE", "adult", "armor", "bodies", "body", "chain", "hair",
               "idle.png", "leather", "plate">>

EmptyFn == [n \in {} |-> 0]
JsArray(names) == [kind |-> "array", names |-> names, sub |-> EmptyFn]
JsObject(keys, f) == [kind |-> "object", names |-> keys, sub |-> f]

\* fs.access(path) rejects
accessThrows(path) == path # <<>> /\ path \notin (dirs \cup assets)

\* fs.readdir(path, { withFileTypes: true }) rejects
readdirThrows(path) ==
    IF path = <<>> THEN ~rootReadable ELSE path \notin dirs \/ path \in unreadable

\* the entries of a readable directory, as Dirent-like records
readdir(path) ==
    LET present(n) == (path \o <<n>>) \in (dirs \cup assets)
        names == SelectSeq(NameOrder, present)
    IN [i \in 1..Len(names) |->
          [name |-> names[i], isDirectory |-> (path \o <<names[i]>>) \in dirs]]

\* entries.filter(entry => entry.isDirectory()).map(entry => entry.name)
directoryNames(entries) ==
    LET isDir(e) == e.isDirectory
        kept == SelectSeq(entries, isDir)
    IN [i \in 1..Len(kept) |-> kept[i].name]

\* getEquipmentTypes: [threw, value]
getEquipmentTypes(basePath) ==
    IF readdirThrows(basePath)
    THEN [threw |-> TRUE, value |-> <<>>]
    ELSE LET notBody(n) == n # "body"
         IN [threw |-> FALSE,
             value |-> SelectSeq(directoryNames(readdir(basePath)), notBody)]

\* getVariants with the recursion of line 368 replaced by a list of names
RECURSIVE getVariantsOneLevel(_)
getVariantsOneLevel(typePath) ==
    IF accessThrows(typePath) THEN JsArray(<<>>)
    ELSE IF readdirThrows(typePath) THEN JsObject(<<>>, EmptyFn)
    ELSE LET variants == directoryNames(readdir(typePath))
             readable(v) == ~readdirThrows(typePath \o <<v>>)
             kept == SelectSeq(variants, readable)
         IN JsObject(kept,
               [v \in Range(kept) |->
                   JsArray(directoryNames(readdir(typePath \o <<v>>)))])

\* getVariants with the catch of line 373 recording the variant as an empty list
RECURSIVE getVariantsKeepUnreadable(_)
getVariantsKeepUnreadable(typePath) ==
    IF accessThrows(typePath) THEN JsArray(<<>>)
    ELSE IF readdirThrows(typePath) THEN JsObject(<<>>, EmptyFn)
    ELSE LET variants == directoryNames(readdir(typePath))
         IN JsObject(variants,
               [v \in Range(variants) |->
                   IF readdirThrows(typePath \o <<v>>) THEN JsArray(<<>>)
                   ELSE LET subdirectories == directoryNames(readdir(typePath \o <<v>>))
                        IN IF Len(subdirectories) > 0
                           THEN getVariantsKeepUnreadable(typePath \o <<v>>)
                           ELSE JsArray(<<>>)])

RECURSIVE getVariants(_)
getVariants(typePath) ==
    IF accessThrows(typePath) THEN JsArray(<<>>)
    ELSE IF readdirThrows(typePath) THEN JsObject(<<>>, EmptyFn)
    ELSE LET variants == directoryNames(readdir(typePath))
             readable(v) == ~readdirThrows(typePath \o <<v>>)
             kept == SelectSeq(variants, readable)
         IN JsObject(kept,
               [v \in Range(kept) |->
                   LET subdirectories == directoryNames(readdir(typePath \o <<v>>))
                   IN IF Len(subdirectories) > 0
                      THEN getVariants(typePath \o <<v>>)
                      ELSE JsArray(<<>>)])

getAvailableOptions ==
    LET equipmentTypes == getEquipmentTypes(<<>>)
    IN IF equipmentTypes.threw
       THEN [kind |-> "error", message |-> "Failed to get available options"]
       ELSE [kind |-> "ok",
             bodyTypes |-> bodyTypes,
             types |-> equipmentTypes.value,
             variants |-> [t \in Range(equipmentTypes.value) |-> getVariants(<<t>>)]]

(***************************************************************************)
(* Initial generator and request state (constructor; no request yet).      *)
(***************************************************************************)
Slots == {1, 2}
NoImages == [t \in {} |-> <<>>]
BlankCanvas == [width |-> universalSheetWidth, height |-> universalSheetHeight,
                cells |-> {}]
NoOutcome == [kind |-> "none"]
NoResponse == [status |-> 0]
EmptyConfig == [bodyType |-> NoValue, bodyColor |-> NoValue,
                animations |-> [given |-> FALSE, names |-> <<>>],
                equipment |-> <<>>]
NoItem == [type |-> NoValue, variant |-> NoValue, subvariant |-> NoValue,
           bodyType |-> NoValue, zPos |-> 0]

GeneratorInit ==
    /\ itemsToDraw = <<>>
    /\ itemsMeta = <<>>
    /\ images = NoImages
    /\ sheetCredits = <<>>
    /\ canvas = BlankCanvas

RequestIdle ==
    /\ pc = [c \in Slots |-> "idle"]
    /\ cfg = [c \in Slots |-> EmptyConfig]
    /\ pending = {}
    /\ outcome = [c \in Slots |-> NoOutcome]
    /\ response = [c \in Slots |-> NoResponse]
    /\ drawLog = [c \in Slots |-> <<>>]
    /\ fsAccess = [c \in Slots |-> {}]
    /\ started = 0
    /\ history = {}

CatalogIdle ==
    /\ dirs = {}
    /\ unreadable = {}
    /\ rootReadable = TRUE
    /\ options = [kind |-> "none"]

ResolveIdle ==
    /\ item = NoItem
    /\ resolved = <<>>

(***************************************************************************)
(* SpecResolve: getImagePath applied to a layer request over an asset tree.*)
(***************************************************************************)
ResolveBodyTypes == {"male", "teen"}
ResolveSubvariants == {NoValue, "s"}
ResolveItems ==
    {[type |-> t, variant |-> "v1", subvariant |-> s, bodyType |-> b,
      zPos |-> getZPosition(t)] :
        t \in {"hair", "body"}, s \in ResolveSubvariants, b \in ResolveBodyTypes}
ResolveUniverse ==
    UNION {Range(possiblePaths(it)) : it \in {i \in ResolveItems : i.type # "body"}}
        \cup {<<"body", "bodies", "male", "idle.png">>}

ResolveInit ==
    /\ item \in ResolveItems
    /\ resolved = <<>>
    /\ assets \in SUBSET ResolveUniverse
    /\ wrapper = "server.js"
    /\ GeneratorInit /\ RequestIdle /\ CatalogIdle

Resolve ==
    /\ resolved = <<>>
    /\ resolved' = getImagePath(item, assets)
    /\ UNCHANGED <<assets, item, catalogVars, generatorVars, requestVars>>

ResolveNext == Resolve
SpecResolve == ResolveInit /\ [][ResolveNext]_vars

(***************************************************************************)
(* SpecCatalog: getAvailableOptions over an asset tree.                    *)
(***************************************************************************)
DirUniverse ==
    {<<"armor">>, <<"body">>, <<"hair">>, <<"armor", "leather">>, <<"armor", "chain">>,
     <<"armor", "leather", "plate">>, <<"armor", "leather", "plate", "adult">>,
     <<"body", "bodies">>}
FileUniverse == {<<"LICENSE">>, <<"armor", "idle.png">>, <<"armor", "leather", "idle.png">>}
Parent(p) == SubSeq(p, 1, Len(p) - 1)
PrefixClosed(D) == \A p \in D : Len(p) > 1 => Parent(p) \in D

CatalogInit ==
    /\ dirs \in {D \in SUBSET DirUniverse : PrefixClosed(D)}
    /\ assets \in {F \in SUBSET FileUniverse :
                      \A p \in F : Len(p) > 1 => Parent(p) \in dirs}
    /\ unreadable \in {U \in SUBSET dirs : Cardinality(U) <= MaxUnreadable}
    /\ rootReadable \in BOOLEAN
    /\ options = [kind |-> "none"]
    /\ wrapper = "server.js"
    /\ GeneratorInit /\ RequestIdle /\ ResolveIdle

GetOptions ==
    /\ options.kind = "none"
    /\ options' = getAvailableOptions
    /\ UNCHANGED <<assets, dirs, unreadable, rootReadable, resolveVars,
                   generatorVars, requestVars>>

CatalogNext == GetOptions
SpecCatalog == CatalogInit /\ [][CatalogNext]_vars

(***************************************************************************)
(* generateCharacter: validation, planning, loading, drawing.              *)
(***************************************************************************)
FramesDrawn == 8       \* for (let frame = 0; frame < 8; frame++)

\* validation that only requires bodyType to be present
validateConfigMissingOnly(config) == config.bodyType = NoValue

\* !config.bodyType || !this.bodyTypes.includes(config.bodyType)
validateConfigThrows(config) ==
    config.bodyType = NoValue \/ config.bodyType \notin Range(bodyTypes)

InvalidBodyTypeError ==
    [kind |-> "error",
     message |-> "Failed to generate character: Invalid body type. Must be one of",
     list |-> bodyTypes, layer |-> NoValue]
LoadError(type) ==
    [kind |-> "error",
     message |-> "Failed to generate character: Failed to load image for",
     list |-> <<>>, layer |-> type]

\* this.canvas.width = ...; this.canvas.height = ...: assigning a dimension
\* recreates the surface, which clears it
setCanvasSize(cv, w, h) == [width |-> w, height |-> h, cells |-> {}]

\* prepareDrawingData: the body item, then one item per equipment entry
bodyItem(config) ==
    [type |-> "body", variant |-> config.bodyColor, subvariant |-> NoValue,
     bodyType |-> config.bodyType, zPos |-> 10]
equipmentItem(config, e) ==
    [type |-> e.type, variant |-> e.variant, subvariant |-> e.subvariant,
     bodyType |-> config.bodyType, zPos |-> getZPosition(e.type)]
plannedItems(config) ==
    <<bodyItem(config)>> \o
    [i \in 1..Len(config.equipment) |-> equipmentItem(config, config.equipment[i])]

\* loadImages: one load per item of this.itemsToDraw, dispatched at once
dispatchedLoads(c, items, files) ==
    {[call |-> c, type |-> items[i].type, path |-> getImagePath(items[i], files)] :
        i \in 1..Len(items)}

\* loadImage(path) resolves iff the file exists (and decodes)
loadImageResolves(path) == path \in assets

\* this.images[item.type] = img
withImage(imgs, type, img) ==
    [t \in DOMAIN imgs \cup {type} |-> IF t = type THEN img ELSE imgs[t]]

\* (a, b) => a.zPos - b.zPos as Array.prototype.sort reads it: a NaN result
\* counts as +0
compareZPos(a, b) ==
    IF a.zPos = InheritedMember \/ b.zPos = InheritedMember THEN 0
    ELSE a.zPos - b.zPos

\* this.itemsToDraw.sort((a, b) => a.zPos - b.zPos): a stable sort
RECURSIVE insertByZPos(_, _)
insertByZPos(sorted, x) ==
    IF sorted = <<>> THEN <<x>>
    ELSE IF compareZPos(sorted[Len(sorted)], x) <= 0 THEN Append(sorted, x)
    ELSE Append(insertByZPos(SubSeq(sorted, 1, Len(sorted) - 1), x), sorted[Len(sorted)])
RECURSIVE sortByZPosUpTo(_, _)
sortByZPosUpTo(items, n) ==
    IF n = 0 THEN <<>> ELSE insertByZPos(sortByZPosUpTo(items, n - 1), items[n])
sortByZPos(items) == sortByZPosUpTo(items, Len(items))

\* whether the comparator is a consistent comparison function for these items
\* (ECMAScript, Array.prototype.sort); with a NaN it need not be
consistentComparator(items) ==
    \A a, b, c \in Range(items) :
        /\ (compareZPos(a, b) = 0 /\ compareZPos(b, c) = 0) => compareZPos(a, c) = 0
        /\ (compareZPos(a, b) < 0 /\ compareZPos(b, c) < 0) => compareZPos(a, c) < 0
        /\ (compareZPos(a, b) > 0 /\ compareZPos(b, c) > 0) => compareZPos(a, c) > 0

\* the orders the sort may leave: the stable order under a consistent comparator,
\* an implementation-defined order of the same items otherwise
sortOutcomes(items) ==
    IF consistentComparator(items) THEN {sortByZPos(items)}
    ELSE {[i \in 1..Len(items) |-> items[p[i]]] :
            p \in {q \in [1..Len(items) -> 1..Len(items)] :
                      \A i, j \in 1..Len(items) : i # j => q[i] # q[j]}}

\* the drawImage calls of drawSpritesheet over the sorted items, in call order
\* (`if (img)` reads this.images[item.type]; a type named like an inherited member
\* is only ever drawn here after its own load stored its image, images being
\* kept from call to call and a call drawing once all of its loads resolved)
drawOps(items, imgs) ==
    LET hasImage(it) == it.type \in DOMAIN imgs
        layers == SelectSeq(items, hasImage)
        n == Len(layers)
    IN [i \in 1..(FramesDrawn * n) |->
          LET frame == (i - 1) \div n
              it == layers[((i - 1) % n) + 1]
          IN [type |-> it.type, img |-> imgs[it.type],
              sx |-> frame * universalFrameSize, sy |-> 0,
              dx |-> frame * universalFrameSize, dy |-> 0]]

\* the canvas cells after the drawImage calls `ops` (source-over: stacked on top)
paint(cells, ops) ==
    LET touched == {<<ops[i].dx, ops[i].dy>> : i \in 1..Len(ops)}
        old(t) == IF \E cl \in cells : cl.x = t[1] /\ cl.y = t[2]
                  THEN (CHOOSE cl \in cells : cl.x = t[1] /\ cl.y = t[2]).layers
                  ELSE <<>>
        new(t) == LET mine(o) == o.dx = t[1] /\ o.dy = t[2]
                      sel == SelectSeq(ops, mine)
                  IN [i \in 1..Len(sel) |->
                        [img |-> sel[i].img, sx |-> sel[i].sx, sy |-> sel[i].sy]]
    IN {cl \in cells : <<cl.x, cl.y>> \notin touched}
       \cup {[x |-> t[1], y |-> t[2], layers |-> old(t) \o new(t)] : t \in touched}

\* the object generateCharacter returns
resultOf(cv, credits) ==
    [kind |-> "ok",
     imageData |-> cv,
     metadata |-> [width |-> cv.width, height |-> cv.height,
                   frameSize |-> universalFrameSize, credits |-> credits]]

(***************************************************************************)
(* POST /api/generate: what the handler answers before calling the engine. *)
(***************************************************************************)
\* src/server.js: no check.  src/unnamed/part_000 (second listing): bodyType
\* and a non-empty animations array are required.
handlerRejects(w, config) ==
    /\ w = "part_000"
    /\ \/ config.bodyType = NoValue
       \/ ~config.animations.given
       \/ Len(config.animations.names) = 0

handlerRejection(config) ==
    [status |-> 400,
     error |-> IF config.bodyType = NoValue THEN "bodyType is required"
               ELSE "animations array is required",
     result |-> NoOutcome]
handlerError(err) ==
    [status |-> 500, error |-> "Failed to generate character", result |-> err]
handlerSuccess(result) == [status |-> 200, error |-> "", result |-> result]

(***************************************************************************)
(* Request inputs.                                                         *)
(***************************************************************************)
ConfigsOver(bodies, anims, entries) ==
    LET \* Object.entries(config.equipment): keys are unique
        equipments ==
            {e \in UNION {[1..n -> entries] : n \in 0..MaxEquipment} :
                \A i, j \in 1..Len(e) : i # j => e[i].type # e[j].type}
    IN {[bodyType |-> b, bodyColor |-> "light", animations |-> a, equipment |-> e] :
           b \in bodies, a \in anims, e \in equipments}

Absent == [given |-> FALSE, names |-> <<>>]
Names(ns) == [given |-> TRUE, names |-> ns]
HairV1 == [type |-> "hair", variant |-> "v1", subvariant |-> NoValue]
HairV2 == [type |-> "hair", variant |-> "v2", subvariant |-> NoValue]
CapeV1 == [type |-> "cape", variant |-> "v1", subvariant |-> NoValue]
WingsV1 == [type |-> "wings", variant |-> "v1", subvariant |-> "s"]

BodyTypeInputs == {"male", "elf", NoValue}
Configs ==
    ConfigsOver(BodyTypeInputs, {Absent, Names(<<"walk">>), Names(<<"idle", "walk">>)},
                {HairV1, CapeV1, WingsV1})
ServerConfigs ==
    ConfigsOver(BodyTypeInputs,
                {Absent, Names(<<>>), Names(<<"walk">>), Names(<<"idle", "walk">>),
                 Names(<<"walk", "fly">>)},
                {HairV1, WingsV1})
ConcurrentConfigs == ConfigsOver({"male"}, {Names(<<"walk">>)}, {HairV1, HairV2, CapeV1})
RepeatConfigs == ConfigsOver({"male"}, {Names(<<"walk">>)}, {HairV1, HairV2, WingsV1})
\* an equipment type named like a member every object inherits
ConstructorV1 == [type |-> "constructor", variant |-> "v1", subvariant |-> NoValue]
DepthConfigs ==
    ConfigsOver({"male"}, {Names(<<"walk">>)}, {HairV1, CapeV1, ConstructorV1})

BodyFile == <<"body", "bodies", "male", "idle.png">>
\* tree A holds no cape and no wings file at all; tree B holds hair v2 only under
\* a fallback candidate
AssetTrees ==
    {{BodyFile, <<"hair", "v1", "adult", "idle.png">>, <<"hair", "v2", "adult", "idle.png">>},
     {BodyFile, <<"hair", "v1", "adult", "idle.png">>, <<"hair", "v2", "universal", "idle.png">>,
      <<"cape", "v1", "adult", "idle.png">>, <<"wings", "v1", "s", "adult", "idle.png">>}}
\* trees that hold a file for the type `constructor`; the second has no cape file
DepthTrees ==
    {{BodyFile, <<"hair", "v1", "adult", "idle.png">>, <<"cape", "v1", "adult", "idle.png">>,
      <<"constructor", "v1", "adult", "idle.png">>},
     {BodyFile, <<"hair", "v1", "adult", "idle.png">>,
      <<"constructor", "v1", "adult", "idle.png">>}}
Wrappers == {"server.js", "part_000"}

InFlight == {"loading", "drawn"}

DirectInit ==
    /\ assets \in AssetTrees
    /\ wrapper = "server.js"
    /\ GeneratorInit /\ RequestIdle /\ CatalogIdle /\ ResolveIdle

DepthInit ==
    /\ assets \in DepthTrees
    /\ wrapper = "server.js"
    /\ GeneratorInit /\ RequestIdle /\ CatalogIdle /\ ResolveIdle

ServerInit ==
    /\ assets \in AssetTrees
    /\ wrapper \in Wrappers
    /\ GeneratorInit /\ RequestIdle /\ CatalogIdle /\ ResolveIdle

(***************************************************************************)
(* The steps of a request, between its await points.                       *)
(***************************************************************************)
\* the handler up to the first await of generateCharacter
Handle(c, k) ==
    /\ pc[c] \notin InFlight
    /\ started' = started + 1
    /\ cfg' = [cfg EXCEPT ![c] = k]
    /\ drawLog' = [drawLog EXCEPT ![c] = <<>>]
    /\ IF handlerRejects(wrapper, k)
       THEN /\ pc' = [pc EXCEPT ![c] = "rejected"]
            /\ outcome' = [outcome EXCEPT ![c] = NoOutcome]
            /\ response' = [response EXCEPT ![c] = handlerRejection(k)]
            /\ fsAccess' = [fsAccess EXCEPT ![c] = {}]
            /\ UNCHANGED <<generatorVars, pending>>
       ELSE IF validateConfigThrows(k)
       THEN /\ pc' = [pc EXCEPT ![c] = "failed"]
            /\ outcome' = [outcome EXCEPT ![c] = InvalidBodyTypeError]
            /\ response' = [response EXCEPT ![c] = handlerError(InvalidBodyTypeError)]
            /\ fsAccess' = [fsAccess EXCEPT ![c] = {}]
            /\ UNCHANGED <<generatorVars, pending>>
       ELSE LET loads == dispatchedLoads(c, plannedItems(k), assets)
            IN /\ pc' = [pc EXCEPT ![c] = "loading"]
               /\ outcome' = [outcome EXCEPT ![c] = NoOutcome]
               /\ response' = [response EXCEPT ![c] = NoResponse]
               /\ itemsToDraw' = plannedItems(k)
               /\ itemsMeta' = <<>>
               /\ sheetCredits' = <<>>
               /\ canvas' = setCanvasSize(canvas, universalSheetWidth, universalSheetHeight)
               /\ pending' = pending \cup loads
               /\ fsAccess' = [fsAccess EXCEPT ![c] = {l.path : l \in loads}]
               /\ UNCHANGED images
    /\ UNCHANGED <<assets, wrapper, history, catalogVars, resolveVars>>

Receive(c, k) == started < MaxCalls /\ Handle(c, k)

\* a load resolves: the continuation after `await loadImage(...)` stores the image
LoadResolves(l) ==
    /\ l \in pending
    /\ loadImageResolves(l.path)
    /\ pending' = pending \ {l}
    /\ images' = withImage(images, l.type, l.path)
    /\ UNCHANGED <<assets, wrapper, itemsToDraw, itemsMeta, sheetCredits, canvas, pc, cfg,
                   outcome, response, drawLog, fsAccess, started, history,
                   catalogVars, resolveVars>>

\* a rejection that is caught and not rethrown: the layer is left without image
LoadRejectsSwallowed(l) ==
    /\ l \in pending
    /\ ~loadImageResolves(l.path)
    /\ pending' = pending \ {l}
    /\ UNCHANGED <<assets, wrapper, generatorVars, pc, cfg, outcome, response, drawLog,
                   fsAccess, started, history, catalogVars, resolveVars>>

\* a load rejects: Promise.all rejects with the first rejection and the call
\* throws; the call's other loads stay in flight, owned by no call (call 0)
LoadRejects(l) ==
    /\ l \in pending
    /\ ~loadImageResolves(l.path)
    /\ IF l.call # 0
       THEN /\ pc' = [pc EXCEPT ![l.call] = "failed"]
            /\ outcome' = [outcome EXCEPT ![l.call] = LoadError(l.type)]
            /\ response' = [response EXCEPT ![l.call] = handlerError(LoadError(l.type))]
            /\ pending' = {m \in pending : m.call # l.call}
                            \cup {[m EXCEPT !.call = 0] : m \in {n \in pending \ {l} : n.call = l.call}}
       ELSE /\ pending' = pending \ {l}
            /\ UNCHANGED <<pc, outcome, response>>
    /\ UNCHANGED <<assets, wrapper, generatorVars, cfg, drawLog, fsAccess, started, history,
                   catalogVars, resolveVars>>

\* every load of the call has resolved: drawSpritesheet runs to its end
Draw(c) ==
    /\ pc[c] = "loading"
    /\ \A l \in pending : l.call # c
    /\ \E sorted \in sortOutcomes(itemsToDraw) :
          LET ops == drawOps(sorted, images)
          IN /\ itemsToDraw' = sorted
             /\ canvas' = [canvas EXCEPT !.cells = paint(canvas.cells, ops)]
             /\ drawLog' = [drawLog EXCEPT ![c] = ops]
    /\ pc' = [pc EXCEPT ![c] = "drawn"]
    /\ UNCHANGED <<assets, wrapper, itemsMeta, images, sheetCredits, cfg, pending, outcome,
                   response, fsAccess, started, history, catalogVars, resolveVars>>

\* after `await this.drawSpritesheet()`: encode the canvas, return, answer 200
ReturnResult(c) ==
    /\ pc[c] = "drawn"
    /\ pc' = [pc EXCEPT ![c] = "returned"]
    /\ outcome' = [outcome EXCEPT ![c] = resultOf(canvas, sheetCredits)]
    /\ response' = [response EXCEPT ![c] = handlerSuccess(resultOf(canvas, sheetCredits))]
    /\ UNCHANGED <<assets, wrapper, generatorVars, cfg, pending, drawLog, fsAccess, started,
                   catalogVars, resolveVars>>

Return(c) == ReturnResult(c) /\ UNCHANGED history

(***************************************************************************)
(* Spec: requests served one after the other by the one generator, behind  *)
(* the handler of src/server.js, which hands every body to the engine.     *)
(***************************************************************************)
Next ==
    \/ \E k \in Configs : Receive(1, k)
    \/ \E l \in pending : LoadResolves(l)
    \/ \E l \in pending : LoadRejects(l)
    \/ Draw(1)
    \/ Return(1)

Spec == DirectInit /\ [][Next]_vars

(***************************************************************************)
(* SpecServer: the same steps behind either handler, over requests with    *)
(* every shape of `animations`.                                            *)
(***************************************************************************)
ServerNext ==
    \/ \E k \in ServerConfigs : Receive(1, k)
    \/ \E l \in pending : LoadResolves(l)
    \/ \E l \in pending : LoadRejects(l)
    \/ Draw(1)
    \/ Return(1)

SpecServer == ServerInit /\ [][ServerNext]_vars

(***************************************************************************)
(* SpecConc: two requests in flight on the one generator of the server,    *)
(* interleaved at their await points.                                      *)
(***************************************************************************)
ConcNext ==
    \/ \E c \in Slots, k \in ConcurrentConfigs : Receive(c, k)
    \/ \E l \in pending : LoadResolves(l)
    \/ \E l \in pending : LoadRejects(l)
    \/ \E c \in Slots : Draw(c)
    \/ \E c \in Slots : Return(c)

SpecConc == DirectInit /\ [][ConcNext]_vars

(***************************************************************************)
(* SpecRepeat: calls made one after the other, each started after the      *)
(* previous one returned or threw, with the returned results recorded.     *)
(***************************************************************************)
RepeatCalls == MaxCalls + 1

RepeatReceive(c, k) == started < RepeatCalls /\ Handle(c, k)

ReturnRecorded(c) ==
    /\ ReturnResult(c)
    /\ history' = history \cup {[config |-> cfg[c], result |-> resultOf(canvas, sheetCredits)]}

RepeatNext ==
    \/ \E k \in RepeatConfigs : RepeatReceive(1, k)
    \/ \E l \in pending : LoadResolves(l)
    \/ \E l \in pending : LoadRejects(l)
    \/ Draw(1)
    \/ ReturnRecorded(1)

SpecRepeat == DirectInit /\ [][RepeatNext]_vars

(***************************************************************************)
(* SpecDepth: requests served one after the other whose equipment may hold *)
(* a type whose name is an inherited member of the depth table.            *)
(***************************************************************************)
DepthNext ==
    \/ \E k \in DepthConfigs : Receive(1, k)
    \/ \E l \in pending : LoadResolves(l)
    \/ \E l \in pending : LoadRejects(l)
    \/ Draw(1)
    \/ Return(1)

SpecDepth == DepthInit /\ [][DepthNext]_vars

(***************************************************************************)
(* Properties.                                                             *)
(***************************************************************************)
Candidates(it) ==
    IF it.type = "body" THEN << <<"body", "bodies", it.bodyType, "idle.png">> >>
    ELSE possiblePaths(it)

\* C1: for every non-body layer request and asset tree, getImagePath returns the
\* first candidate, in the precedence order, that exists in the tree (background
\* when the bodyTypeDir and universal candidates are absent and it is present).
C1_FirstExistingCandidateWins ==
    (resolved # <<>> /\ item.type # "body") =>
        LET pp == possiblePaths(item)
        IN \A i \in 1..Len(pp) :
              (pp[i] \in assets /\ \A j \in 1..(i - 1) : pp[j] \notin assets)
                  => resolved = pp[i]

\* C9 as stated: equipment.types lists every directory directly under the root
\* except body, and every variant directory maps to the list of its subvariant
\* directory names (empty when it has none).
TopDirs == {p[1] : p \in {q \in dirs : Len(q) = 1}}
ChildDirs(path) == {p[Len(p)] : p \in {q \in dirs : Len(q) = Len(path) + 1 /\ Parent(q) = path}}
InOrder(S) == LET in(n) == n \in S IN SelectSeq(NameOrder, in)

C9_VariantsAreSubvariantLists ==
    (options.kind = "ok" /\ unreadable = {}) =>
        /\ options.types = InOrder(TopDirs \ {"body"})
        /\ \A t \in TopDirs \ {"body"} :
              /\ options.variants[t].names = InOrder(ChildDirs(<<t>>))
              /\ \A v \in ChildDirs(<<t>>) :
                    options.variants[t].sub[v] = JsArray(InOrder(ChildDirs(<<t, v>>)))

\* C9 amended: a variant directory with no sub-directory maps to the empty list;
\* one with sub-directories maps to a nested mapping from each sub-directory name
\* to that sub-directory's own entry, built the same way at every depth.
RECURSIVE NestedEntry(_)
NestedEntry(path) ==
    IF ChildDirs(path) = {} THEN JsArray(<<>>)
    ELSE JsObject(InOrder(ChildDirs(path)),
                  [n \in ChildDirs(path) |-> NestedEntry(path \o <<n>>)])

C9_VariantsAreNestedMappings ==
    (options.kind = "ok" /\ unreadable = {}) =>
        /\ options.types = InOrder(TopDirs \ {"body"})
        /\ \A t \in TopDirs \ {"body"} :
              /\ options.variants[t].kind = "object"
              /\ options.variants[t].names = InOrder(ChildDirs(<<t>>))
              /\ \A v \in ChildDirs(<<t>>) :
                    options.variants[t].sub[v] = NestedEntry(<<t, v>>)

C9_Witness ==
    /\ options.kind = "ok"
    /\ unreadable = {}
    /\ dirs = {<<"armor">>, <<"armor", "leather">>, <<"armor", "leather", "plate">>}
    /\ options.types = <<"armor">>
    /\ options.variants["armor"].sub["leather"]
          = JsObject(<<"plate">>, [n \in {"plate"} |-> JsArray(<<>>)])

ValidBodyType(k) == k.bodyType \in Range(bodyTypes)
ValidAnimations(k) ==
    /\ k.animations.given
    /\ Len(k.animations.names) > 0
    /\ \A i \in 1..Len(k.animations.names) : k.animations.names[i] \in DOMAIN animations
EngineCalled(c) == pc[c] \in {"loading", "drawn", "returned", "failed"}

\* C2: a generateCharacter call whose bodyType is missing or not one of the six
\* body types throws the invalid-body-type error listing the six values, having
\* opened no file, started no load and changed nothing of the generator (draw
\* list, image cache, credits, canvas).
C2_InvalidBodyTypeFailsFirst ==
    [][(started' = started + 1 /\ ~ValidBodyType(cfg'[1]))
          => /\ pc'[1] = "failed"
             /\ outcome'[1] = InvalidBodyTypeError
             /\ outcome'[1].list = <<"male", "female", "teen", "child", "muscular", "pregnant">>
             /\ fsAccess'[1] = {}
             /\ pending' = pending
             /\ UNCHANGED generatorVars]_vars

C2_Witness ==
    /\ started = 2
    /\ cfg[1].bodyType = "elf"
    /\ pc[1] = "failed"
    /\ outcome[1] = InvalidBodyTypeError
    /\ canvas.cells # {}
    /\ "body" \in DOMAIN images

\* the planned layers of a config none of whose candidate paths is a file
Unloadable(k) ==
    {i \in 1..Len(plannedItems(k)) :
        \A j \in 1..Len(Candidates(plannedItems(k)[i])) :
            Candidates(plannedItems(k)[i])[j] \notin assets}
\* the planned layers of a config whose load rejects
FailingLoads(k) ==
    {i \in 1..Len(plannedItems(k)) : ~loadImageResolves(getImagePath(plannedItems(k)[i], assets))}

\* C4 as stated: when a planned equipment layer has no existing candidate, the
\* call throws an error naming that layer's type and returns no image.
C4_ErrorNamesEveryMissingLayer ==
    \A c \in Slots :
        (EngineCalled(c) /\ ValidBodyType(cfg[c])) =>
            \A i \in Unloadable(cfg[c]) :
                i > 1 =>
                    /\ pc[c] \in {"loading", "failed"}
                    /\ response[c].status # 200
                    /\ pc[c] = "failed" => outcome[c].layer = plannedItems(cfg[c])[i].type

\* C4 amended: when a planned equipment layer has no existing candidate, the call
\* throws and returns no image; the error names the type of a planned layer whose
\* load failed (that layer's, when it is the only one whose load fails; the one
\* that failed first otherwise).
C4_ErrorNamesAFailedLayer ==
    \A c \in Slots :
        (EngineCalled(c) /\ ValidBodyType(cfg[c])
            /\ \E i \in Unloadable(cfg[c]) : i > 1) =>
            /\ pc[c] \in {"loading", "failed"}
            /\ response[c].status # 200
            /\ outcome[c].kind # "ok"
            /\ pc[c] = "failed" =>
                  /\ response[c].status = 500
                  /\ outcome[c].message
                        = "Failed to generate character: Failed to load image for"
                  /\ \E i \in FailingLoads(cfg[c]) :
                        outcome[c].layer = plannedItems(cfg[c])[i].type

C4_Witness ==
    /\ started = 1
    /\ pc[1] = "failed"
    /\ cfg[1].equipment = <<HairV1, WingsV1>>
    /\ Unloadable(cfg[1]) = {3}
    /\ outcome[1] = LoadError("wings")
    /\ images = [t \in {"hair"} |-> <<"hair", "v1", "adult", "idle.png">>]
    /\ \E l \in pending : l.type = "body"

\* C5: in every frame cell the layers are drawn in the stable sort by zDepth of
\* the insertion order (body, then the equipment entries in config order),
\* whatever the order in which the loads completed.
DrawnTypes(ops, x, y) ==
    LET mine(o) == o.dx = x /\ o.dy = y
        sel == SelectSeq(ops, mine)
    IN [i \in 1..Len(sel) |-> sel[i].type]
\* the place of a type in the sequence drawn into a cell
DrawnPlace(types, t) == CHOOSE n \in 1..Len(types) : types[n] = t
\* item i comes before item j in the stable sort by zDepth of the insertion order
StablyBefore(items, i, j) ==
    /\ items[i].zPos # InheritedMember
    /\ items[j].zPos # InheritedMember
    /\ \/ items[i].zPos < items[j].zPos
       \/ items[i].zPos = items[j].zPos /\ i < j

C5_DrawOrderIsStableSortByZ ==
    \A c \in Slots :
        pc[c] \in {"drawn", "returned"} =>
            LET items == plannedItems(cfg[c])
            IN \A f \in 0..(FramesDrawn - 1) :
                  LET types == DrawnTypes(drawLog[c], f * universalFrameSize, 0)
                  IN /\ Len(types) = Len(items)
                     /\ \A i \in 1..Len(items) : items[i].type \in Range(types)
                     /\ \A i, j \in 1..Len(items) :
                           StablyBefore(items, i, j)
                              => DrawnPlace(types, items[i].type)
                                    < DrawnPlace(types, items[j].type)

\* C7 as stated: the reported width is 8 x 64 and the reported height is the
\* largest rowIndex + frameCount of the animation table, times 64.
MaxRowPlusFrames == Max({animations[a].row + animations[a].frames : a \in DOMAIN animations})
MaxFrameCount == Max({animations[a].frames : a \in DOMAIN animations})
MaxRowIndex == Max({animations[a].row : a \in DOMAIN animations})

C7_WidthEightColumns ==
    \A c \in Slots :
        pc[c] = "returned" =>
            /\ outcome[c].metadata.width = 8 * 64
            /\ outcome[c].metadata.height = MaxRowPlusFrames * 64

\* C7 amended: the reported width is 832 = 13 x 64 (13 is the largest frameCount
\* of the table) and the reported height is 3456 = 54 x 64 (the largest rowIndex
\* plus 4 rows), whatever animations were requested.
C7_FixedSheetSize ==
    \A c \in Slots :
        pc[c] = "returned" =>
            /\ outcome[c].metadata.width = 832
            /\ outcome[c].metadata.width = MaxFrameCount * 64
            /\ outcome[c].metadata.height = 3456
            /\ outcome[c].metadata.height = (MaxRowIndex + 4) * 64
            /\ outcome[c].imageData.width = outcome[c].metadata.width
            /\ outcome[c].imageData.height = outcome[c].metadata.height

C7_Witness ==
    /\ pc[1] = "returned"
    /\ cfg[1].animations = Names(<<"idle", "walk">>)
    /\ outcome[1].metadata.width = 832
    /\ outcome[1].metadata.height = 3456

\* C3: a generateCharacter call whose animations are absent, empty or hold a name
\* that is no key of the animation table throws; it plans no layer, loads no image
\* and returns no result.
C3_InvalidAnimationsFail ==
    \A c \in Slots :
        (EngineCalled(c) /\ ValidBodyType(cfg[c]) /\ ~ValidAnimations(cfg[c])) =>
            /\ pc[c] = "failed"
            /\ outcome[c].kind = "error"
            /\ fsAccess[c] = {}

\* C10: a validation failure (bodyType or animations) is answered 4xx, any other
\* engine failure 5xx, and 200 only carries the result of a call that returned.
C10_StatusByFailureKind ==
    \A c \in Slots :
        response[c].status # 0 =>
            /\ (~ValidBodyType(cfg[c]) \/ ~ValidAnimations(cfg[c]))
                  => response[c].status \in 400..499
            /\ (ValidBodyType(cfg[c]) /\ ValidAnimations(cfg[c]) /\ pc[c] = "failed")
                  => response[c].status \in 500..599
            /\ response[c].status = 200
                  => (pc[c] = "returned" /\ response[c].result.kind = "ok")

\* what a call draws and returns when its draw list, images and canvas are its own
OwnImages(k) ==
    LET items == plannedItems(k)
    IN [t \in {items[i].type : i \in 1..Len(items)} |->
          getImagePath(CHOOSE it \in Range(items) : it.type = t, assets)]
OwnOps(k) == drawOps(sortByZPos(plannedItems(k)), OwnImages(k))
OwnCells(k) == paint({}, OwnOps(k))

\* C6: with two calls in flight, each call draws and returns exactly the layers
\* and images its own config determines.
C6_CallsOwnTheirState ==
    \A c \in Slots :
        /\ pc[c] \in {"drawn", "returned"} => drawLog[c] = OwnOps(cfg[c])
        /\ pc[c] = "returned" => outcome[c].imageData.cells = OwnCells(cfg[c])

\* C8: two calls with the same config on the same generator and asset tree return
\* the same image and metadata, whatever calls completed before or between them.
C8_SameConfigSameResult ==
    \A a, b \in history : a.config = b.config => a.result = b.result

\* the frame cells of the requested animations, in request order: origin
\* (f x 64, rowIndex x 64) for f in 0..frameCount-1
RECURSIVE RequestedCells(_)
RequestedCells(names) ==
    IF names = <<>> THEN <<>>
    ELSE LET a == animations[names[1]]
         IN [f \in 1..a.frames |->
               <<(f - 1) * universalFrameSize, a.row * universalFrameSize>>]
            \o RequestedCells(SubSeq(names, 2, Len(names)))
CellPlace(cells, cell) == CHOOSE i \in 1..Len(cells) : cells[i] = cell
LoadedTypes(items, imgs) ==
    LET hasImage(it) == it.type \in DOMAIN imgs
        layers == SelectSeq(items, hasImage)
    IN [i \in 1..Len(layers) |-> layers[i].type]

\* C11: for each requested animation, in request order, and each of its frames,
\* drawSpritesheet draws every planned layer that has a loaded image into the
\* cell at (f x 64, rowIndex x 64) from the source cell at the same offset; it
\* draws into no other cell, and skips a layer that has no image.
C11_CellsFollowRequestedAnimations ==
    \A c \in Slots :
        (pc[c] \in {"drawn", "returned"} /\ ValidAnimations(cfg[c])) =>
            LET cells == RequestedCells(cfg[c].animations.names)
                ops == drawLog[c]
            IN /\ {<<ops[i].dx, ops[i].dy>> : i \in 1..Len(ops)} = Range(cells)
               /\ \A i \in 1..Len(ops) : ops[i].sx = ops[i].dx /\ ops[i].sy = ops[i].dy
               /\ \A i, j \in 1..Len(ops) :
                     i < j => CellPlace(cells, <<ops[i].dx, ops[i].dy>>)
                                 <= CellPlace(cells, <<ops[j].dx, ops[j].dy>>)
               /\ \A n \in 1..Len(cells) :
                     DrawnTypes(ops, cells[n][1], cells[n][2])
                        = LoadedTypes(itemsToDraw, images)

\* C12 as stated: a read failure below the root leaves the entry of that
\* directory in the result with an empty value, every other entry is enumerated
\* normally, and the call fails exactly when the root cannot be read.
RECURSIVE EntryKeptEmpty(_, _)
EntryKeptEmpty(v, path) ==
    IF path \in unreadable THEN v.names = <<>>
    ELSE /\ v.names = InOrder(ChildDirs(path))
         /\ \A n \in ChildDirs(path) : EntryKeptEmpty(v.sub[n], path \o <<n>>)

C12_UnreadableEntriesStayEmpty ==
    options.kind # "none" =>
        /\ options.kind = "error" <=> ~rootReadable
        /\ options.kind = "ok" =>
              /\ options.types = InOrder(TopDirs \ {"body"})
              /\ \A t \in TopDirs \ {"body"} : EntryKeptEmpty(options.variants[t], <<t>>)

\* C12 amended: an unreadable type directory stays in the result with an empty
\* value; an unreadable variant or deeper directory is left out of its parent's
\* mapping; every other entry is enumerated normally, and the call fails exactly
\* when the root cannot be read.
ReadableChildDirs(path) == {n \in ChildDirs(path) : (path \o <<n>>) \notin unreadable}
RECURSIVE EntryOmitsUnreadable(_, _)
EntryOmitsUnreadable(v, path) ==
    IF path \in unreadable THEN v.names = <<>>
    ELSE /\ v.names = InOrder(ReadableChildDirs(path))
         /\ \A n \in ReadableChildDirs(path) :
               EntryOmitsUnreadable(v.sub[n], path \o <<n>>)

C12_UnreadableVariantsOmitted ==
    options.kind # "none" =>
        /\ options.kind = "error" <=> ~rootReadable
        /\ options.kind = "ok" =>
              /\ options.types = InOrder(TopDirs \ {"body"})
              /\ \A t \in TopDirs \ {"body"} :
                    EntryOmitsUnreadable(options.variants[t], <<t>>)

C12_Witness ==
    /\ options.kind = "ok"
    /\ unreadable = {<<"armor", "leather">>}
    /\ <<"armor", "chain">> \in dirs
    /\ options.variants["armor"].names = <<"chain">>

\* C13: an equipment layer whose type is not in the depth table gets zDepth 0
\* and is drawn before the body layer in every frame cell; an equipment layer
\* whose type is in the table (other than body) is drawn after the body layer.
C13_UnknownTypesDrawnBelowBody ==
    \A c \in Slots :
        /\ pc[c] \in {"loading", "drawn", "returned"} =>
              \A i \in 1..Len(itemsToDraw) :
                 itemsToDraw[i].type \notin DOMAIN zPositions => itemsToDraw[i].zPos = 0
        /\ pc[c] \in {"drawn", "returned"} =>
              \A f \in 0..(FramesDrawn - 1) :
                 LET types == DrawnTypes(drawLog[c], f * universalFrameSize, 0)
                     equipment == cfg[c].equipment
                 IN \A i \in 1..Len(equipment) :
                       /\ equipment[i].type \in Range(types)
                       /\ equipment[i].type \notin DOMAIN zPositions
                             => DrawnPlace(types, equipment[i].type)
                                   < DrawnPlace(types, "body")
                       /\ equipment[i].type \in (DOMAIN zPositions \ {"body"})
                             => DrawnPlace(types, "body")
                                   < DrawnPlace(types, equipment[i].type)

====
